---- MODULE Spec2Model ----
(***************************************************************************)
(* Model of mpobrien/ankibuilder: the interactive session state machine of *)
(* chat.go (chatModel.update / handleCommand / prepareAdd), the lookup     *)
(* service and entry parser of wr.go (WordReference.Translate) and the     *)
(* phrase extraction of chat.go (parsePhrases).                            *)
(*                                                                         *)
(* Go strings are modelled by TLA+ strings and processed character by      *)
(* character.  TLA+ string literals are ASCII only, so the three non-ASCII *)
(* glyphs of the source are written with one-character stand-ins:          *)
(*   EmDash (U+2014) = "~",  Arrow (U+21D2) = "^",  InfoGlyph (U+24D8) = "@"*)
(* and the three characters U+00E2 U+20AC U+201D that stand in the prompt  *)
(* of phrasesCmd where a dash was meant are written "=+%" (PromptDash).    *)
(***************************************************************************)
EXTENDS Integers, Sequences, FiniteSets, TLC

(***************************************************************************)
(* Bounds of the model.                                                    *)
(***************************************************************************)
\* largest index numeral typed after /add, /phrases and /cards
MaxIdx == 3
\* largest number of arguments typed after /add, /phrases and /cards
MaxArgs == 2
\* largest number of rows of a table handed to the entry parser on its own
MaxRows == 4
\* largest number of tables of a page handed to the entry parser on its own
MaxTables == 3
\* largest number of tokens of a text handed to the phrase extraction on its own
MaxToks == 5

(***************************************************************************)
(* Program constants.                                                      *)
(***************************************************************************)
pageSize == 5

EmDash == "~"

\* the separator written in the response format of the prompt of phrasesCmd
PromptDash == "=+%"
Arrow == "^"
InfoGlyph == "@"

(***************************************************************************)
(* Go string library, character by character.                              *)
(***************************************************************************)
Char(s, i) == SubSeq(s, i, i)

\* the strings of the model are ASCII; these characters stand for the vertical
\* tab, U+0085 (next line) and U+00A0 (no-break space)
VTab == "$"
Nel  == ";"
Nbsp == "_"

\* unicode.IsSpace for the characters of the model
IsSpace(c) == c \in {" ", "\t", "\n", "\r", "\f", VTab, Nel, Nbsp}

HasPrefix(s, p) == Len(s) >= Len(p) /\ SubSeq(s, 1, Len(p)) = p

TrimPrefix(s, p) == IF HasPrefix(s, p) THEN SubSeq(s, Len(p) + 1, Len(s)) ELSE s

RECURSIVE TrimLeft(_)
TrimLeft(s) ==
    IF Len(s) > 0 /\ IsSpace(Char(s, 1)) THEN TrimLeft(SubSeq(s, 2, Len(s))) ELSE s

RECURSIVE TrimRight(_)
TrimRight(s) ==
    IF Len(s) > 0 /\ IsSpace(Char(s, Len(s))) THEN TrimRight(SubSeq(s, 1, Len(s) - 1)) ELSE s

TrimSpace(s) == TrimRight(TrimLeft(s))

\* position of the first occurrence of sub in s at or after position i, 0 if none
IndexFrom(s, sub, i) ==
    LET hits == {k \in i..(Len(s) - Len(sub) + 1) : SubSeq(s, k, k + Len(sub) - 1) = sub}
    IN  IF hits = {} THEN 0 ELSE CHOOSE k \in hits : \A h \in hits : k <= h

Index(s, sub) == IndexFrom(s, sub, 1)

RECURSIVE ReplaceAll(_, _, _)
ReplaceAll(s, old, new) ==
    LET i == Index(s, old)
    IN  IF i = 0 THEN s
        ELSE SubSeq(s, 1, i - 1) \o new
             \o ReplaceAll(SubSeq(s, i + Len(old), Len(s)), old, new)

\* strings.Split(s, sep) for a non-empty separator
RECURSIVE Split(_, _)
Split(s, sep) ==
    LET i == Index(s, sep)
    IN  IF i = 0 THEN <<s>>
        ELSE <<SubSeq(s, 1, i - 1)>> \o Split(SubSeq(s, i + Len(sep), Len(s)), sep)

\* strings.SplitN(s, sep, 2)
SplitN2(s, sep) ==
    LET i == Index(s, sep)
    IN  IF i = 0 THEN <<s>>
        ELSE <<SubSeq(s, 1, i - 1), SubSeq(s, i + Len(sep), Len(s))>>

\* strings.Fields: the maximal runs of non-space characters of s
RECURSIVE FieldsFrom(_, _, _)
FieldsFrom(s, i, cur) ==
    IF i > Len(s) THEN (IF cur = "" THEN <<>> ELSE <<cur>>)
    ELSE IF IsSpace(Char(s, i))
         THEN (IF cur = "" THEN <<>> ELSE <<cur>>) \o FieldsFrom(s, i + 1, "")
         ELSE FieldsFrom(s, i + 1, cur \o Char(s, i))

Fields(s) == FieldsFrom(s, 1, "")

RECURSIVE Join(_, _)
Join(ss, sep) ==
    IF Len(ss) = 0 THEN ""
    ELSE IF Len(ss) = 1 THEN ss[1]
    ELSE ss[1] \o sep \o Join(Tail(ss), sep)

Digits == <<"0", "1", "2", "3", "4", "5", "6", "7", "8", "9">>

IsDigit(c) == \E d \in 1..10 : Digits[d] = c

DigitVal(c) == (CHOOSE d \in 1..10 : Digits[d] = c) - 1

RECURSIVE DigitsVal(_, _)
DigitsVal(s, acc) ==
    IF s = "" THEN acc ELSE DigitsVal(SubSeq(s, 2, Len(s)), acc * 10 + DigitVal(Char(s, 1)))

\* strconv.Atoi: an optional sign followed by one or more decimal digits
\* (the tokens of the model stay far below the 64-bit range)
Atoi(s) ==
    LET signed == Len(s) > 0 /\ Char(s, 1) \in {"+", "-"}
        body   == IF signed THEN SubSeq(s, 2, Len(s)) ELSE s
        ok     == Len(body) > 0 /\ \A i \in 1..Len(body) : IsDigit(Char(body, i))
    IN  IF ~ok THEN [err |-> TRUE, n |-> 0]
        ELSE [err |-> FALSE,
              n   |-> IF signed /\ Char(s, 1) = "-" THEN 0 - DigitsVal(body, 0)
                      ELSE DigitsVal(body, 0)]

\* fmt.Sprintf("%d", n)
Itoa(n) == ToString(n)

\* fmt.Sprintf("%q", s) for the tokens of the model (no character needs escaping)
Quote(s) == "\"" \o s \o "\""

Min(a, b) == IF a < b THEN a ELSE b

(***************************************************************************)
(* Entry parser and lookup service (wr.go).                                *)
(*                                                                         *)
(* A document is [noEntry, tables]; noEntry is the text of p#noEntryFound. *)
(* A table is [class, title, rows]; title is <<>> when the first cell of   *)
(* the table has no title attribute, <<t>> otherwise.  A row is a record   *)
(* of its class attribute and of the cells the parser selects; an optional *)
(* cell is <<>> when absent and <<text>> when present.                     *)
(***************************************************************************)
Row(class, fr, frPos, td2, to, toPos, notes, frEx, toEx) ==
    [class |-> class, FrWrd |-> fr, FrPOS |-> frPos, Td2 |-> td2, ToWrd |-> to,
     ToPOS |-> toPos, Notes |-> notes, FrEx |-> frEx, ToEx |-> toEx]

CellText(cell) == IF cell = <<>> THEN "" ELSE cell[1]

FromWordString(fw) ==
    IF Len(fw.Grammar) > 0 THEN fw.Source \o " (" \o fw.Grammar \o ")" ELSE fw.Source

ToWordString(tw) ==
    IF Len(tw.Notes) > 0
    THEN tw.Meaning \o " (" \o tw.Grammar \o ") (" \o tw.Notes \o ")"
    ELSE tw.Meaning \o " (" \o tw.Grammar \o ")"

parseFromWord(entry) ==
    [Source  |-> ReplaceAll(TrimSpace(CellText(entry[1].FrWrd)), Arrow, ""),
     Grammar |-> IF entry[1].FrPOS # <<>> THEN TrimSpace(entry[1].FrPOS[1]) ELSE ""]

RECURSIVE parseToWord(_)
parseToWord(entry) ==
    IF entry = <<>> THEN <<>>
    ELSE LET tr == entry[1]
         IN  (IF tr.ToWrd # <<>>
              THEN <<[Meaning |-> ReplaceAll(TrimSpace(tr.ToWrd[1]), Arrow, ""),
                      Notes   |-> IF tr.Notes # <<>> THEN TrimSpace(tr.Notes[1]) ELSE "",
                      Grammar |-> IF tr.ToPOS # <<>> THEN TrimSpace(tr.ToPOS[1]) ELSE ""]>>
              ELSE <<>>) \o parseToWord(Tail(entry))

\* The pattern compiled by parseContext starts with the end-of-text anchor "$"
\* followed by literal text, so it matches no string and FindStringSubmatch
\* returns nil for every second cell.
ContextMatches(context) == <<>>

parseContext(entry) ==
    LET context == CellText(entry[1].Td2)
        matches == ContextMatches(context)
    IN  IF Len(matches) > 1 THEN matches[2] ELSE ""

RECURSIVE parseFromExample(_)
parseFromExample(entry) ==
    IF entry = <<>> THEN ""
    ELSE IF entry[1].FrEx # <<>> THEN TrimSpace(entry[1].FrEx[1])
    ELSE parseFromExample(Tail(entry))

\* number of consecutive spaces of s starting at position i
RECURSIVE SpacesFrom(_, _)
SpacesFrom(s, i) ==
    IF i <= Len(s) /\ Char(s, i) = " " THEN 1 + SpacesFrom(s, i + 1) ELSE 0

\* regexp InfoGlyph [^.]+ \. " "* replaced by the empty string, leftmost first
RECURSIVE StripInfoFrom(_, _)
StripInfoFrom(s, i) ==
    IF i > Len(s) THEN ""
    ELSE LET dot == IndexFrom(s, ".", i + 1)
         IN  IF Char(s, i) = InfoGlyph /\ dot > i + 1
             THEN StripInfoFrom(s, dot + 1 + SpacesFrom(s, dot + 1))
             ELSE Char(s, i) \o StripInfoFrom(s, i + 1)

RECURSIVE parseToExample(_)
parseToExample(entry) ==
    IF entry = <<>> THEN <<>>
    ELSE (IF entry[1].ToEx # <<>>
          THEN <<StripInfoFrom(TrimSpace(entry[1].ToEx[1]), 1)>>
          ELSE <<>>) \o parseToExample(Tail(entry))

parseEntry(entry) ==
    [FromWord    |-> parseFromWord(entry),
     ToWords     |-> parseToWord(entry),
     Context     |-> parseContext(entry),
     FromExample |-> parseFromExample(entry),
     ToExample   |-> parseToExample(entry)]

\* the rows selected by "tr.even, tr.odd"
QualifyingRows(table) == SelectSeq(table.rows, LAMBDA r : r.class \in {"even", "odd"})

\* variant of GroupRows that closes the open group on a class change only when
\* it holds more than one row
RECURSIVE GroupRows_lateFlush(_, _)
GroupRows_lateFlush(rows, st) ==
    IF rows = <<>> THEN st
    ELSE LET row     == rows[1]
             flush   == row.class # st.lastRowClass /\ Len(st.entryGroup) > 1
             entries == IF flush THEN Append(st.entries, parseEntry(st.entryGroup))
                        ELSE st.entries
             groups  == IF flush THEN Append(st.groups, st.entryGroup) ELSE st.groups
             group   == IF flush THEN <<>> ELSE st.entryGroup
         IN  GroupRows_lateFlush(Tail(rows), [entries      |-> entries,
                                              groups       |-> groups,
                                              entryGroup   |-> Append(group, row),
                                              lastRowClass |-> row.class])

\* the row loop of Translate: st = [entries, groups, entryGroup, lastRowClass];
\* groups records the row groups handed to parseEntry, in order
RECURSIVE GroupRows(_, _)
GroupRows(rows, st) ==
    IF rows = <<>> THEN st
    ELSE LET row     == rows[1]
             flush   == row.class # st.lastRowClass /\ Len(st.entryGroup) > 0
             entries == IF flush THEN Append(st.entries, parseEntry(st.entryGroup))
                        ELSE st.entries
             groups  == IF flush THEN Append(st.groups, st.entryGroup) ELSE st.groups
             group   == IF flush THEN <<>> ELSE st.entryGroup
         IN  GroupRows(Tail(rows), [entries      |-> entries,
                                    groups       |-> groups,
                                    entryGroup   |-> Append(group, row),
                                    lastRowClass |-> row.class])

\* the row loop followed by "process the last group if it exists"
ScanTable(table) ==
    LET st == GroupRows(QualifyingRows(table),
                        [entries |-> <<>>, groups |-> <<>>, entryGroup |-> <<>>,
                         lastRowClass |-> ""])
    IN  IF Len(st.entryGroup) > 0
        THEN [entries |-> Append(st.entries, parseEntry(st.entryGroup)),
              groups  |-> Append(st.groups, st.entryGroup)]
        ELSE [entries |-> st.entries, groups |-> st.groups]

TableEntries(table) == ScanTable(table).entries

\* the row groups of the table, one per call of parseEntry
TableGroups(table) == ScanTable(table).groups

SectionTitle(table) == IF table.title = <<>> THEN "Untitled Section" ELSE table.title[1]

\* variant of FindSection that never finds the section
FindSection_none(sections, title) == 0

\* index of the first section with this title, 0 if none
FindSection(sections, title) ==
    IF \E i \in 1..Len(sections) : sections[i].Title = title
    THEN CHOOSE i \in 1..Len(sections) :
            /\ sections[i].Title = title
            /\ \A j \in 1..(i - 1) : sections[j].Title # title
    ELSE 0

\* the found or newly appended section gets the entries of this table
\* (section.Entries = entries)
AssignSection(sections, table) ==
    LET title   == SectionTitle(table)
        entries == TableEntries(table)
        i       == FindSection(sections, title)
    IN  IF i = 0 THEN Append(sections, [Title |-> title, Entries |-> entries])
        ELSE [sections EXCEPT ![i].Entries = entries]

RECURSIVE ParseTables(_, _)
ParseTables(tables, sections) ==
    IF tables = <<>> THEN sections
    ELSE ParseTables(Tail(tables), AssignSection(sections, tables[1]))

\* The HTTP exchange either fails (netErr # "") or yields the document doc.
Translate(word, netErr, doc) ==
    IF netErr # "" THEN [translation |-> <<>>, err |-> netErr]
    ELSE IF doc.noEntry # "" THEN [translation |-> <<>>, err |-> doc.noEntry]
    ELSE [translation |->
            <<[Word         |-> word,
               Translations |-> ParseTables(
                   SelectSeq(doc.tables, LAMBDA t : t.class = "WRD"), <<>>)]>>,
          err |-> ""]

(***************************************************************************)
(* The dictionary site seen by the model: one document per word.           *)
(***************************************************************************)
HeadRow(class, fr, to) ==
    Row(class, <<Nbsp \o fr \o Arrow>>, <<"n">>, <<"(ctx)">>, <<to>>, <<"nf">>, <<>>, <<>>, <<>>)

MoreRow(class, to) ==
    Row(class, <<>>, <<>>, <<>>, <<to \o " ">>, <<>>, <<"fig">>, <<>>, <<>>)

FrExRow(class, ex) == Row(class, <<>>, <<>>, <<>>, <<>>, <<>>, <<>>, <<ex>>, <<>>)

ToExRow(class, ex) == Row(class, <<>>, <<>>, <<>>, <<>>, <<>>, <<>>, <<>>, <<ex>>)

OtherRow == Row("langHeader", <<>>, <<>>, <<>>, <<>>, <<>>, <<>>, <<>>, <<>>)

RowClass(i) == IF i % 2 = 1 THEN "even" ELSE "odd"

\* the rows of sense i of word w: one to three rows of the same class
SenseRows(w, i) ==
    LET class == RowClass(i)
        head  == <<HeadRow(class, w \o Itoa(i), "t" \o Itoa(i))>>
    IN  IF i % 3 = 1 THEN head
        ELSE IF i % 3 = 2 THEN head \o <<MoreRow(class, "u" \o Itoa(i))>>
        ELSE head \o <<FrExRow(class, "ex " \o w), ToExRow(class, "@ note. tr " \o w)>>

RECURSIVE SensesRows(_, _, _)
SensesRows(w, from, to) ==
    IF from > to THEN <<>> ELSE SenseRows(w, from) \o SensesRows(w, from + 1, to)

WrdTable(title, rows) == [class |-> "WRD", title |-> title, rows |-> <<OtherRow>> \o rows]

Words == {"casa", "sol", "mar", "largo", "nada", "zzz"}

DocOf(word) ==
    IF word = "casa"
    THEN [noEntry |-> "",
          tables  |-> <<WrdTable(<<"Principal Translations">>, SensesRows(word, 1, 4)),
                        [class |-> "other", title |-> <<>>, rows |-> SensesRows(word, 1, 2)],
                        WrdTable(<<"Additional Translations">>, SensesRows(word, 5, 7))>>]
    ELSE IF word = "sol"
    THEN [noEntry |-> "", tables |-> <<WrdTable(<<>>, SensesRows(word, 1, 2))>>]
    ELSE IF word = "mar"
    THEN [noEntry |-> "",
          tables  |-> <<WrdTable(<<"verb">>, SensesRows(word, 1, 2)),
                        WrdTable(<<"noun">>, SensesRows(word, 3, 3)),
                        WrdTable(<<"verb">>, SensesRows(word, 4, 4))>>]
    ELSE IF word = "largo"
    THEN [noEntry |-> "", tables |-> <<WrdTable(<<"adj">>, SensesRows(word, 1, 11))>>]
    ELSE IF word = "nada"
    THEN [noEntry |-> "", tables |-> <<WrdTable(<<"empty">>, <<>>)>>]
    ELSE [noEntry |-> "No translation found for '" \o word \o "'.", tables |-> <<>>]

\* outcomes of the HTTP exchange of one lookup: "" is a delivered response
NetErrs == {"", "dial tcp: connection refused"}

(***************************************************************************)
(* Rendering helpers of chat.go.  A printed line is a record               *)
(* [style, text, header, items]: items are the numbered blocks of          *)
(* renderEntries / renderPhrases / renderDecks, header the word heading.   *)
(***************************************************************************)
Line(style, text) == [style |-> style, text |-> text, header |-> <<>>, items |-> <<>>]

RECURSIVE Flatten(_)
Flatten(ss) == IF ss = <<>> THEN <<>> ELSE ss[1] \o Flatten(Tail(ss))

flattenEntries(t) == Flatten([i \in 1..Len(t.Translations) |-> t.Translations[i].Entries])

\* variant of renderEntries that prints the 0-based position as the number
renderEntries_zeroBased(word, entries, start, end) ==
    [style  |-> "entries",
     text   |-> "",
     header |-> IF start = 0 THEN <<word>> ELSE <<>>,
     items  |-> [k \in 1..(IF end > start THEN end - start ELSE 0) |->
                    [n |-> start + k - 1, entry |-> entries[start + k]]]]

\* entries[start..end-1] (0-based), each printed under the number i+1
renderEntries(word, entries, start, end) ==
    [style  |-> "entries",
     text   |-> "",
     header |-> IF start = 0 THEN <<word>> ELSE <<>>,
     items  |-> [k \in 1..(IF end > start THEN end - start ELSE 0) |->
                    [n |-> start + k, entry |-> entries[start + k]]]]

showingHint(end, total) ==
    "  Showing " \o Itoa(end) \o " of " \o Itoa(total) \o " " \o EmDash
    \o " /more for next page, /all for everything"

\* variant of hasMore that also holds on the last page
hasMore_orEqual(end, total) == end <= total

\* the "if end < len(entries)" test that appends the hint to a rendered page
hasMore(end, total) == end < total

withHint(output, end, total) ==
    IF hasMore(end, total) THEN [output EXCEPT !.text = showingHint(end, total)] ELSE output

renderPhrases(phrases) ==
    [style |-> "phrases", text |-> "", header |-> <<>>,
     items |-> [k \in 1..Len(phrases) |-> [n |-> k, phrase |-> phrases[k]]]]

renderList(style, docs) == [style |-> style, text |-> "", header |-> <<>>, items |-> docs]

(***************************************************************************)
(* Phrase extraction (chat.go parsePhrases).                               *)
(***************************************************************************)
PhraseSep == " " \o EmDash \o " "

parseLine(rawLine) ==
    LET line == TrimSpace(rawLine)
    IN  IF line = "" THEN <<>>
        ELSE LET plain == ReplaceAll(TrimPrefix(line, "- "), "**", "")
                 parts == SplitN2(plain, PhraseSep)
             IN  IF Len(parts) = 2 THEN <<[Source |-> parts[1], Target |-> parts[2]]>>
                 ELSE <<>>

\* variant of parsePhrases that gives up at the first line it cannot split
RECURSIVE parseUntilBad(_)
parseUntilBad(lines) ==
    IF lines = <<>> THEN <<>>
    ELSE IF TrimSpace(lines[1]) = "" THEN parseUntilBad(Tail(lines))
    ELSE IF parseLine(lines[1]) = <<>> THEN <<>>
    ELSE parseLine(lines[1]) \o parseUntilBad(Tail(lines))

parsePhrases_abort(raw) == parseUntilBad(Split(raw, "\n"))

parsePhrases(raw) ==
    LET lines == Split(raw, "\n")
    IN  Flatten([i \in 1..Len(lines) |-> parseLine(lines[i])])

\* responses of the completion service used by the model
RawPhrases ==
    {"- Hola **mundo** ~ Hello **world**\n\n- La **casa** ~ The **house**",
     "Here you go\n- Una **casa** ~ A **house**",
     "sorry, no sentences"}

(***************************************************************************)
(* Editable records and card creation (createCardsCmd, generateCards).     *)
(* prepareAdd hands each EditTemplate to the encoder of the YAML library   *)
(* and createCardsCmd hands the text back to its decoder.  The library is  *)
(* no part of the program's source and its text format is not modelled: a  *)
(* document is kept as the sequence of the <<key, value>> fields the       *)
(* encoder was given under the yaml tags of EditTemplate, and the content  *)
(* of the file is the sequence of its documents.                           *)
(***************************************************************************)
\* the fields enc.Encode is given: the two omitempty fields are left out when empty
yamlEncode(templ) ==
    <<<<"TargetLang", templ.TargetLang>>, <<"SourceLang", templ.SourceLang>>>>
    \o (IF templ.TargetExample # "" THEN <<<<"TargetExample", templ.TargetExample>>>> ELSE <<>>)
    \o (IF templ.SourceExample # "" THEN <<<<"SourceExample", templ.SourceExample>>>> ELSE <<>>)

\* content the decoder rejects: a line it cannot read is kept as <<"", text>>
MalformedYaml == <<<<<<"", "TargetLang: [">>>>>>

YamlField(doc, key) ==
    IF \E i \in 1..Len(doc) : doc[i][1] = key
    THEN doc[CHOOSE i \in 1..Len(doc) : doc[i][1] = key][2]
    ELSE ""

\* dec.Decode(&tmpl): decodes the first document of the content only; content
\* without any document ends the stream (io.EOF)
yamlDecode(content) ==
    IF content = <<>> THEN [err |-> "EOF", tmpl |-> <<>>]
    ELSE IF \E i \in 1..Len(content[1]) : content[1][i][1] = ""
    THEN [err |-> "syntax error", tmpl |-> <<>>]
    ELSE [err  |-> "",
          tmpl |-> <<[TargetLang    |-> YamlField(content[1], "TargetLang"),
                      SourceLang    |-> YamlField(content[1], "SourceLang"),
                      TargetExample |-> YamlField(content[1], "TargetExample"),
                      SourceExample |-> YamlField(content[1], "SourceExample")]>>]

generateCards(tmpl) ==
    <<[TemplateID |-> "sxPZBYo9", SourceLang |-> tmpl.SourceLang, TargetLang |-> tmpl.TargetLang,
       SourceExample |-> tmpl.SourceExample, TargetExample |-> tmpl.TargetExample],
      [TemplateID |-> "kuIZ8krm", SourceLang |-> tmpl.SourceLang, TargetLang |-> tmpl.TargetLang,
       SourceExample |-> tmpl.SourceExample, TargetExample |-> tmpl.TargetExample]>>

\* the CreateCard loop: the failAt-th call fails (0: none fails)
\* one request of the loop to the card service
CreateCard(card) == [op |-> "create", card |-> card]

\* variant of createLoop that goes on with the remaining cards after a failure
createLoop_continue(cards, failAt) ==
    IF failAt \in 1..Len(cards)
    THEN [count |-> failAt - 1, err |-> "failed to create card: failed",
          calls |-> [c \in 1..Len(cards) |-> CreateCard(cards[c])]]
    ELSE [count |-> Len(cards), err |-> "",
          calls |-> [c \in 1..Len(cards) |-> CreateCard(cards[c])]]

\* the result carries, next to the count and the error of the message, the
\* requests the loop sent to the card service, in order
createLoop(cards, failAt) ==
    IF failAt \in 1..Len(cards)
    THEN [count |-> failAt - 1, err |-> "failed to create card: failed",
          calls |-> [c \in 1..failAt |-> CreateCard(cards[c])]]
    ELSE [count |-> Len(cards), err |-> "",
          calls |-> [c \in 1..Len(cards) |-> CreateCard(cards[c])]]

createCardsCmd(yamlContent, failAt) ==
    LET dec == yamlDecode(yamlContent)
    IN  IF dec.err # "" THEN [count |-> 0, err |-> "invalid yaml: " \o dec.err, calls |-> <<>>]
        ELSE createLoop(generateCards(dec.tmpl[1]), failAt)

phraseTemplate(p) ==
    [TargetLang |-> p.Source, SourceLang |-> p.Target,
     TargetExample |-> p.Source, SourceExample |-> p.Target]

createPhraseCardsCmd(phrases, failAt) ==
    createLoop(Flatten([i \in 1..Len(phrases) |-> generateCards(phraseTemplate(phrases[i]))]),
               failAt)

(***************************************************************************)
(* The session state machine (chat.go chatModel).                          *)
(* m is the chatModel value; update returns the new value, the lines       *)
(* handed to tea.Println and the collaborator calls dispatched.            *)
(* lastTranslation is <<>> for nil and <<t>> for a pointer to t.           *)
(***************************************************************************)
Ret(m, out, cmds) == [m |-> m, out |-> out, cmds |-> cmds]

Call(kind, arg) == [kind |-> kind, arg |-> arg]

setBusy(m, b, msg) ==
    [m EXCEPT !.busy = b,
              !.focus = ~b,
              !.busyMsg = IF b THEN (IF msg # "" THEN msg ELSE "Working") ELSE ""]

\* end of the page that starts at start
pageEnd(start, total) == Min(start + pageSize, total)

\* variant of indexInRange that also rejects the first index
indexInRange_fromTwo(idx, len) == ~(idx <= 0 \/ idx >= len)

\* the range test applied to the 0-based idx = n - 1
indexInRange(idx, len) == ~(idx < 0 \/ idx >= len)

helpText == "Commands:"

\* variant of caseMore that renders the page and leaves the cursor where it was
caseMore_noAdvance(m) ==
    IF m.lastTranslation = <<>> THEN Ret(m, <<Line("err", "No results to show.")>>, <<>>)
    ELSE LET entries == flattenEntries(m.lastTranslation[1])
         IN  IF m.shownEntries >= Len(entries)
             THEN Ret(m, <<Line("dim", "No more results.")>>, <<>>)
             ELSE LET start == m.shownEntries
                      end   == pageEnd(start, Len(entries))
                  IN  Ret(m,
                          <<withHint(renderEntries(m.lastWord, entries, start, end),
                                     end, Len(entries))>>,
                          <<>>)

\* variant of caseMore whose page starts at the last entry already shown
caseMore_overlap(m) ==
    IF m.lastTranslation = <<>> THEN Ret(m, <<Line("err", "No results to show.")>>, <<>>)
    ELSE LET entries == flattenEntries(m.lastTranslation[1])
         IN  IF m.shownEntries >= Len(entries)
             THEN Ret(m, <<Line("dim", "No more results.")>>, <<>>)
             ELSE LET start == m.shownEntries - 1
                      end   == pageEnd(m.shownEntries, Len(entries))
                  IN  Ret([m EXCEPT !.shownEntries = end],
                          <<withHint(renderEntries(m.lastWord, entries, start, end),
                                     end, Len(entries))>>,
                          <<>>)

\* variant of caseMore that starts over from the first page at the end
caseMore_wrap(m) ==
    IF m.lastTranslation = <<>> THEN Ret(m, <<Line("err", "No results to show.")>>, <<>>)
    ELSE LET entries == flattenEntries(m.lastTranslation[1])
         IN  IF m.shownEntries >= Len(entries)
             THEN Ret([m EXCEPT !.shownEntries = 0], <<Line("dim", "No more results.")>>, <<>>)
             ELSE LET start == m.shownEntries
                      end   == pageEnd(start, Len(entries))
                  IN  Ret([m EXCEPT !.shownEntries = end],
                          <<withHint(renderEntries(m.lastWord, entries, start, end),
                                     end, Len(entries))>>,
                          <<>>)

caseMore(m) ==
    IF m.lastTranslation = <<>> THEN Ret(m, <<Line("err", "No results to show.")>>, <<>>)
    ELSE LET entries == flattenEntries(m.lastTranslation[1])
         IN  IF m.shownEntries >= Len(entries)
             THEN Ret(m, <<Line("dim", "No more results.")>>, <<>>)
             ELSE LET start == m.shownEntries
                      end   == pageEnd(start, Len(entries))
                  IN  Ret([m EXCEPT !.shownEntries = end],
                          <<withHint(renderEntries(m.lastWord, entries, start, end),
                                     end, Len(entries))>>,
                          <<>>)

\* variant of caseAll without the "no more results" test
caseAll_rerender(m) ==
    IF m.lastTranslation = <<>> THEN Ret(m, <<Line("err", "No results to show.")>>, <<>>)
    ELSE LET entries == flattenEntries(m.lastTranslation[1])
         IN  Ret([m EXCEPT !.shownEntries = Len(entries)],
                 <<renderEntries(m.lastWord, entries,
                                 IF m.shownEntries >= Len(entries) THEN 0 ELSE m.shownEntries,
                                 Len(entries))>>,
                 <<>>)

caseAll(m) ==
    IF m.lastTranslation = <<>> THEN Ret(m, <<Line("err", "No results to show.")>>, <<>>)
    ELSE LET entries == flattenEntries(m.lastTranslation[1])
         IN  IF m.shownEntries >= Len(entries)
             THEN Ret(m, <<Line("dim", "No more results.")>>, <<>>)
             ELSE Ret([m EXCEPT !.shownEntries = Len(entries)],
                      <<renderEntries(m.lastWord, entries, m.shownEntries, Len(entries))>>,
                      <<>>)

casePhrases(m, parts) ==
    IF m.lastTranslation = <<>>
    THEN Ret(m, <<Line("err", "No translation available. Look up a word first.")>>, <<>>)
    ELSE IF Len(parts) < 2 THEN Ret(m, <<Line("err", "Usage: /phrases <n>")>>, <<>>)
    ELSE LET a       == Atoi(parts[2])
             entries == flattenEntries(m.lastTranslation[1])
         IN  IF a.err THEN Ret(m, <<Line("err", Quote(parts[2]) \o " is not a number")>>, <<>>)
             ELSE IF ~indexInRange(a.n - 1, Len(entries))
             THEN Ret(m, <<Line("err", "Invalid index: " \o Itoa(a.n) \o " (must be 1-"
                                       \o Itoa(Len(entries)) \o ")")>>, <<>>)
             ELSE Ret(setBusy(m, TRUE, "Generating example sentences"), <<>>,
                      <<Call("phrases", <<entries[a.n]>>)>>)

\* variant of cardsLoop that skips a bad argument instead of returning the error
RECURSIVE cardsLoop_skip(_, _, _)
cardsLoop_skip(m, args, phrases) ==
    IF args = <<>> THEN [phrases |-> phrases, err |-> ""]
    ELSE LET a == Atoi(args[1])
         IN  IF a.err \/ ~indexInRange(a.n - 1, Len(m.lastPhrases))
             THEN cardsLoop_skip(m, Tail(args), phrases)
             ELSE cardsLoop_skip(m, Tail(args), Append(phrases, m.lastPhrases[a.n]))

\* the argument loop of /cards; stops at the first bad argument
RECURSIVE cardsLoop(_, _, _)
cardsLoop(m, args, phrases) ==
    IF args = <<>> THEN [phrases |-> phrases, err |-> ""]
    ELSE LET a == Atoi(args[1])
         IN  IF a.err THEN [phrases |-> phrases, err |-> Quote(args[1]) \o " is not a number"]
             ELSE IF ~indexInRange(a.n - 1, Len(m.lastPhrases))
             THEN [phrases |-> phrases,
                   err     |-> "Invalid index: " \o Itoa(a.n) \o " (must be 1-"
                               \o Itoa(Len(m.lastPhrases)) \o ")"]
             ELSE cardsLoop(m, Tail(args), Append(phrases, m.lastPhrases[a.n]))

caseCards(m, parts) ==
    IF Len(m.lastPhrases) = 0
    THEN Ret(m, <<Line("err", "No phrases available. Use /phrases <n> first.")>>, <<>>)
    ELSE IF Len(parts) < 2
    THEN Ret(m, <<Line("err", "Usage: /cards [n...] (e.g. /cards 1 3 5)")>>, <<>>)
    ELSE LET r == cardsLoop(m, Tail(parts), <<>>)
         IN  IF r.err # "" THEN Ret(m, <<Line("err", r.err)>>, <<>>)
             ELSE Ret(setBusy(m, TRUE, "Creating cards"), <<>>,
                      <<Call("createPhraseCards", r.phrases)>>)

\* first loop of prepareAdd: every parameter is converted before any is range-checked
RECURSIVE parseParams(_, _)
parseParams(params, nums) ==
    IF params = <<>> THEN [nums |-> nums, err |-> ""]
    ELSE LET a == Atoi(params[1])
         IN  IF a.err THEN [nums |-> nums, err |-> Quote(params[1]) \o " is not a number"]
             ELSE parseParams(Tail(params), Append(nums, a.n))

entryTemplate(entry) ==
    [TargetLang    |-> FromWordString(entry.FromWord),
     SourceLang    |-> Join([i \in 1..Len(entry.ToWords) |-> ToWordString(entry.ToWords[i])], "\n"),
     SourceExample |-> IF Len(entry.FromExample) > 0 THEN entry.FromExample ELSE "",
     TargetExample |-> IF Len(entry.ToExample) > 0 THEN entry.ToExample[1] ELSE ""]

\* second loop of prepareAdd: encodes one record per index, stops at the first bad
\* index and at the first record enc.Encode rejects (encodeFails: it rejects)
RECURSIVE encodeLoop(_, _, _, _)
encodeLoop(allEntries, nums, docs, encodeFails) ==
    IF nums = <<>> THEN [docs |-> docs, err |-> ""]
    ELSE IF ~indexInRange(nums[1] - 1, Len(allEntries))
    THEN [docs |-> docs, err |-> "Invalid index: " \o Itoa(nums[1])]
    ELSE IF encodeFails THEN [docs |-> docs, err |-> "YAML encode error: error"]
    ELSE encodeLoop(allEntries, Tail(nums),
                    Append(docs, yamlEncode(entryTemplate(allEntries[nums[1]]))),
                    encodeFails)

\* fault: the step of prepareAdd that fails ("": none)
prepareAdd(m, params, fault) ==
    LET allEntries == flattenEntries(m.lastTranslation[1])
        p          == parseParams(params, <<>>)
        e          == encodeLoop(allEntries, p.nums, <<>>, fault = "encode")
    IN  IF p.err # "" THEN Ret(m, <<Line("err", p.err)>>, <<>>)
        ELSE IF e.err # "" THEN Ret(m, <<Line("err", e.err)>>, <<>>)
        ELSE IF fault = "create"
        THEN Ret(m, <<Line("err", "Failed to create temp file: error")>>, <<>>)
        ELSE IF fault = "write"
        THEN Ret(m, <<Line("err", "Failed to write temp file: error")>>, <<>>)
        ELSE Ret(setBusy(m, TRUE, ""), <<>>, <<Call("editor", e.docs)>>)

\* variant of caseAdd without the test for a missing argument
caseAdd_noUsage(m, parts, fault) ==
    IF m.lastTranslation = <<>>
    THEN Ret(m, <<Line("err", "No translation to add from. Look up a word first.")>>, <<>>)
    ELSE prepareAdd(m, Tail(parts), fault)

caseAdd(m, parts, fault) ==
    IF m.lastTranslation = <<>>
    THEN Ret(m, <<Line("err", "No translation to add from. Look up a word first.")>>, <<>>)
    ELSE IF Len(parts) < 2 THEN Ret(m, <<Line("err", "Usage: /add [index...]")>>, <<>>)
    ELSE prepareAdd(m, Tail(parts), fault)

handleCommand(m, input, fault) ==
    LET parts == Fields(input)
        c     == parts[1]
    IN  IF c = "/help" THEN Ret(m, <<Line("help", helpText)>>, <<>>)
        ELSE IF c = "/more" THEN caseMore(m)
        ELSE IF c = "/all" THEN caseAll(m)
        ELSE IF c = "/decks"
        THEN Ret(setBusy(m, TRUE, "Loading decks"), <<>>, <<Call("listDecks", <<>>)>>)
        ELSE IF c = "/templates"
        THEN Ret(setBusy(m, TRUE, "Loading templates"), <<>>, <<Call("listTemplates", <<>>)>>)
        ELSE IF c = "/add" THEN caseAdd(m, parts, fault)
        ELSE IF c = "/phrases" THEN casePhrases(m, parts)
        ELSE IF c \in {"/cards", "/card"} THEN caseCards(m, parts)
        ELSE Ret(m, <<Line("err", "Unknown command: " \o c)>>, <<>>)

\* variant of enterSuppressed without the busy test
enterSuppressed_never(m) == FALSE

\* the first test of the "enter" case of update
enterSuppressed(m) == m.busy

\* variant of enterKey in which enter pressed while busy ends the busy state
enterKey_interrupts(m, value, fault) ==
    IF enterSuppressed(m) THEN Ret(setBusy(m, FALSE, ""), <<>>, <<>>)
    ELSE LET input == TrimSpace(value)
         IN  IF input = "" THEN Ret(m, <<>>, <<>>)
             ELSE LET echo == <<Line("echo", "> " \o input)>>
                  IN  IF HasPrefix(input, "/")
                      THEN LET r == handleCommand(m, input, fault)
                           IN  Ret(r.m, echo \o r.out, r.cmds)
                      ELSE Ret(setBusy(m, TRUE, "Looking up"), echo,
                               <<Call("translate", <<input>>)>>)

\* case tea.KeyMsg "enter": value is textInput.Value()
enterKey(m, value, fault) ==
    IF enterSuppressed(m) THEN Ret(m, <<>>, <<>>)
    ELSE LET input == TrimSpace(value)
         IN  IF input = "" THEN Ret(m, <<>>, <<>>)
             ELSE LET echo == <<Line("echo", "> " \o input)>>
                  IN  IF HasPrefix(input, "/")
                      THEN LET r == handleCommand(m, input, fault)
                           IN  Ret(r.m, echo \o r.out, r.cmds)
                      ELSE Ret(setBusy(m, TRUE, "Looking up"), echo,
                               <<Call("translate", <<input>>)>>)

\* variant of translateFailed that stores the (nil) translation before testing err
translateFailed_stores(m, msg) ==
    Ret([setBusy(m, FALSE, "") EXCEPT !.lastTranslation = msg.translation,
                                      !.lastWord = msg.word,
                                      !.shownEntries = 0],
        <<Line("err", "Error: " \o msg.err)>>, <<>>)

\* case translateResultMsg, error branch
translateFailed(m, msg) == Ret(setBusy(m, FALSE, ""), <<Line("err", "Error: " \o msg.err)>>, <<>>)

\* variant of translateOk that pages on from the cursor of the previous Translation
translateOk_keepCursor(m, msg) ==
    LET entries == flattenEntries(msg.translation[1])
        start   == Min(m.shownEntries, Len(entries))
        end     == pageEnd(start, Len(entries))
    IN  Ret([setBusy(m, FALSE, "") EXCEPT !.lastTranslation = msg.translation,
                                          !.lastWord = msg.word,
                                          !.shownEntries = end],
            <<withHint(renderEntries(msg.word, entries, start, end), end, Len(entries))>>,
            <<>>)

\* variant of translateOk that advances the cursor by a whole page
translateOk_fullPage(m, msg) ==
    LET entries == flattenEntries(msg.translation[1])
        end     == pageEnd(0, Len(entries))
    IN  Ret([setBusy(m, FALSE, "") EXCEPT !.lastTranslation = msg.translation,
                                          !.lastWord = msg.word,
                                          !.shownEntries = pageSize],
            <<withHint(renderEntries(msg.word, entries, 0, end), end, Len(entries))>>,
            <<>>)

\* variant of translateOk that drops the phrases generated for the previous word
translateOk_clearsPhrases(m, msg) ==
    LET entries == flattenEntries(msg.translation[1])
        end     == pageEnd(0, Len(entries))
    IN  Ret([setBusy(m, FALSE, "") EXCEPT !.lastTranslation = msg.translation,
                                          !.lastWord = msg.word,
                                          !.lastPhrases = <<>>,
                                          !.shownEntries = end],
            <<withHint(renderEntries(msg.word, entries, 0, end), end, Len(entries))>>,
            <<>>)

\* case translateResultMsg, success branch
translateOk(m, msg) ==
    LET entries == flattenEntries(msg.translation[1])
        end     == pageEnd(0, Len(entries))
    IN  Ret([setBusy(m, FALSE, "") EXCEPT !.lastTranslation = msg.translation,
                                          !.lastWord = msg.word,
                                          !.shownEntries = end],
            <<withHint(renderEntries(msg.word, entries, 0, end), end, Len(entries))>>,
            <<>>)

translateResult(m, msg) ==
    IF msg.err # "" THEN translateFailed(m, msg) ELSE translateOk(m, msg)

\* case listDecksResultMsg / listTemplatesResultMsg
listResult(m, msg, style) ==
    IF msg.err # "" THEN Ret(setBusy(m, FALSE, ""), <<Line("err", "Error: " \o msg.err)>>, <<>>)
    ELSE Ret(setBusy(m, FALSE, ""), <<renderList(style, msg.docs)>>, <<>>)

\* variant of editorFinished that clears busy while it hands over to card creation
editorFinished_idle(m, msg) ==
    IF msg.err # ""
    THEN Ret(setBusy(m, FALSE, ""), <<Line("err", "Editor error: " \o msg.err)>>, <<>>)
    ELSE Ret(setBusy(m, FALSE, ""), <<>>, <<Call("createCards", msg.content)>>)

\* case editorFinishedMsg
editorFinished(m, msg) ==
    IF msg.err # ""
    THEN Ret(setBusy(m, FALSE, ""), <<Line("err", "Editor error: " \o msg.err)>>, <<>>)
    ELSE Ret(setBusy(m, TRUE, "Creating cards"), <<>>, <<Call("createCards", msg.content)>>)

\* variant of addCardResult that clears busy on the success path only
addCardResult_staysBusy(m, msg) ==
    IF msg.err # "" THEN Ret(m, <<Line("err", "Error: " \o msg.err)>>, <<>>)
    ELSE Ret(setBusy(m, FALSE, ""),
             <<Line("success", "Successfully created " \o Itoa(msg.count) \o " card(s).")>>, <<>>)

\* case addCardResultMsg
addCardResult(m, msg) ==
    IF msg.err # "" THEN Ret(setBusy(m, FALSE, ""), <<Line("err", "Error: " \o msg.err)>>, <<>>)
    ELSE Ret(setBusy(m, FALSE, ""),
             <<Line("success", "Successfully created " \o Itoa(msg.count) \o " card(s).")>>, <<>>)

\* variant of phrasesResult that keeps the previous batch when nothing was parsed
phrasesResult_keepOnEmpty(m, msg) ==
    IF msg.err # "" THEN Ret(setBusy(m, FALSE, ""), <<Line("err", "Error: " \o msg.err)>>, <<>>)
    ELSE LET phrases == parsePhrases(msg.phrases)
         IN  Ret([setBusy(m, FALSE, "") EXCEPT
                     !.lastPhrases = IF phrases = <<>> THEN m.lastPhrases ELSE phrases],
                 <<renderPhrases(phrases)>>, <<>>)

\* case phrasesResultMsg
phrasesResult(m, msg) ==
    IF msg.err # "" THEN Ret(setBusy(m, FALSE, ""), <<Line("err", "Error: " \o msg.err)>>, <<>>)
    ELSE LET phrases == parsePhrases(msg.phrases)
         IN  Ret([setBusy(m, FALSE, "") EXCEPT !.lastPhrases = phrases],
                 <<renderPhrases(phrases)>>, <<>>)

(***************************************************************************)
(* State: the fields of chatModel, the collaborator calls dispatched and   *)
(* not yet completed, and the call of update in progress: msg is the       *)
(* message it handles and out the lines of the tea.Println commands it     *)
(* returns, in the order of the slice it gives to tea.Batch.  The event    *)
(* loop calls Update for one message at a time; when Update has returned   *)
(* (Flush) the loop holds the commands and is free to take the next        *)
(* message: msg is [type |-> "none"] and out is empty.  The commands of a  *)
(* batch run concurrently, each delivering its line later, so the order in *)
(* which lines reach the terminal, of one update or of several, is not     *)
(* fixed by the program; the terminal is not part of the state.  rendered  *)
(* holds the numbered entries the updates have rendered for the            *)
(* Translation in use, in the order of the updates.                        *)
(*                                                                         *)
(* The lookup service and the phrase extraction are also run on their own: *)
(* page is the document handed to Translate and result what it returned    *)
(* (<<>> before the call), response is the text handed to parsePhrases and *)
(* extracted what it returned (<<>> before the call).                      *)
(***************************************************************************)
VARIABLES lastTranslation, lastWord, lastPhrases, shownEntries, busy, busyMsg, focus,
          inflight, out, msg, rendered, page, result, response, extracted

vars == <<lastTranslation, lastWord, lastPhrases, shownEntries, busy, busyMsg, focus,
          inflight, out, msg, rendered, page, result, response, extracted>>

chat == <<lastTranslation, lastWord, lastPhrases, shownEntries, busy, busyMsg, focus,
          inflight, out, msg, rendered>>

functions == <<page, result, response, extracted>>

session == <<lastTranslation, lastWord, lastPhrases, shownEntries>>

M == [lastTranslation |-> lastTranslation, lastWord |-> lastWord,
      lastPhrases |-> lastPhrases, shownEntries |-> shownEntries,
      busy |-> busy, busyMsg |-> busyMsg, focus |-> focus]

(***************************************************************************)
(* What the user types.                                                    *)
(***************************************************************************)
IdxTokens == {Itoa(n) : n \in 0..MaxIdx} \cup {"x"}

ArgLists == UNION {[1..k -> IdxTokens] : k \in 1..MaxArgs}

IndexCommands == {"/add", "/phrases", "/cards"}

Values ==
    Words \cup {"", "  ", " sol ", "/help", "/more", "/all", " /all", "/decks", "/templates",
                "/add", "/phrases", "/cards", "/card 1", "/x", "/more 9"}
    \cup {c \o " " \o Join(args, " ") : c \in IndexCommands, args \in ArgLists}

\* the chatModel built by newChatModel, nothing dispatched or printed yet
newChatModel ==
    /\ lastTranslation = <<>>
    /\ lastWord = ""
    /\ lastPhrases = <<>>
    /\ shownEntries = 0
    /\ busy = FALSE
    /\ busyMsg = ""
    /\ focus = TRUE
    /\ inflight = <<>>
    /\ out = <<>>
    /\ msg = [type |-> "none"]
    /\ rendered = <<>>

NoPage == [noEntry |-> "", tables |-> <<>>]

Init ==
    /\ newChatModel
    /\ page = NoPage
    /\ result = <<>>
    /\ response = ""
    /\ extracted = <<>>

\* the numbered entries in the lines of one update, in order
EntryItems(lines) ==
    Flatten([i \in 1..Len(lines) |->
                IF lines[i].style = "entries" THEN lines[i].items ELSE <<>>])

\* the numbered entries rendered for the Translation in use: those of the
\* update that stored it and of the updates since, in the order of the updates
Scrollback(shown, ev, lines) ==
    (IF ev.type = "translateResult" /\ ev.err = "" THEN <<>> ELSE shown) \o EntryItems(lines)

\* one call of update: r is its result, ev the message handled, rest the calls
\* still outstanding after the handled completion was consumed.  Update is not
\* called while a call of it is in progress.
Step(r, ev, rest) ==
    /\ msg.type = "none"
    /\ lastTranslation' = r.m.lastTranslation
    /\ lastWord' = r.m.lastWord
    /\ lastPhrases' = r.m.lastPhrases
    /\ shownEntries' = r.m.shownEntries
    /\ busy' = r.m.busy
    /\ busyMsg' = r.m.busyMsg
    /\ focus' = r.m.focus
    /\ inflight' = rest \o r.cmds
    /\ out' = r.out
    /\ msg' = ev
    /\ rendered' = Scrollback(rendered, ev, r.out)
    /\ UNCHANGED functions

Without(calls, i) == SubSeq(calls, 1, i - 1) \o SubSeq(calls, i + 1, Len(calls))

\* the input line is reset when a call is dispatched and a blurred input ignores
\* keys; the model lets it hold any of these texts while the session is busy
BusyValues == {"", "sol", "/more", "/all", "/decks", "/add 1", "/phrases 1", "/cards 1"}

\* what can fail in prepareAdd: enc.Encode, os.CreateTemp, io.WriteString ("": nothing)
Faults == {"", "encode", "create", "write"}

\* the user presses enter with value in the input line
Enter ==
    \E value \in (IF busy THEN BusyValues ELSE Values) :
      \E fault \in (IF HasPrefix(TrimSpace(value), "/add ") THEN Faults ELSE {""}) :
        Step(enterKey(M, value, fault),
             [type |-> "enter", value |-> value, fault |-> fault], inflight)

\* translateCmd completes
TranslateDone ==
    \E i \in 1..Len(inflight) : \E netErr \in NetErrs :
        /\ inflight[i].kind = "translate"
        /\ LET word == inflight[i].arg[1]
               res  == Translate(word, netErr, DocOf(word))
               ev   == [type |-> "translateResult", word |-> word,
                        translation |-> res.translation, err |-> res.err]
           IN  Step(translateResult(M, ev), ev, Without(inflight, i))

Decks == <<[Name |-> "Spanish", ID |-> "qyYRvdSD", TemplateID |-> "sxPZBYo9"]>>

Templates == <<[ID |-> "sxPZBYo9", Name |-> "Forward"], [ID |-> "kuIZ8krm", Name |-> "Reverse"]>>

\* listDecksCmd completes
ListDecksDone ==
    \E i \in 1..Len(inflight) : \E err \in {"", "unexpected end of JSON input"} :
        /\ inflight[i].kind = "listDecks"
        /\ LET ev == [type |-> "listDecksResult", docs |-> IF err = "" THEN Decks ELSE <<>>,
                      err |-> err]
           IN  Step(listResult(M, ev, "decks"), ev, Without(inflight, i))

\* listTemplatesCmd completes
ListTemplatesDone ==
    \E i \in 1..Len(inflight) : \E err \in {"", "unexpected end of JSON input"} :
        /\ inflight[i].kind = "listTemplates"
        /\ LET ev == [type |-> "listTemplatesResult",
                      docs |-> IF err = "" THEN Templates ELSE <<>>, err |-> err]
           IN  Step(listResult(M, ev, "templates"), ev, Without(inflight, i))

\* the editor process exits: it failed, or the file is read back unedited,
\* emptied or damaged
EditorDone ==
    \E i \in 1..Len(inflight) : \E how \in {"unedited", "emptied", "damaged", "failed"} :
        /\ inflight[i].kind = "editor"
        /\ LET ev == [type    |-> "editorFinished",
                      content |-> IF how = "unedited" THEN inflight[i].arg
                                  ELSE IF how = "damaged" THEN MalformedYaml ELSE <<>>,
                      err     |-> IF how = "failed" THEN "exit status 1" ELSE ""]
           IN  Step(editorFinished(M, ev), ev, Without(inflight, i))

\* createCardsCmd completes
CreateCardsDone ==
    \E i \in 1..Len(inflight) : \E failAt \in 0..2 :
        /\ inflight[i].kind = "createCards"
        /\ LET res == createCardsCmd(inflight[i].arg, failAt)
               ev  == [type |-> "addCardResult", count |-> res.count, err |-> res.err,
                       calls |-> res.calls]
           IN  Step(addCardResult(M, ev), ev, Without(inflight, i))

\* createPhraseCardsCmd completes
CreatePhraseCardsDone ==
    \E i \in 1..Len(inflight) : \E failAt \in 0..(2 * Len(inflight[i].arg)) :
        /\ inflight[i].kind = "createPhraseCards"
        /\ LET res == createPhraseCardsCmd(inflight[i].arg, failAt)
               ev  == [type |-> "addCardResult", count |-> res.count, err |-> res.err,
                       calls |-> res.calls]
           IN  Step(addCardResult(M, ev), ev, Without(inflight, i))

\* phrasesCmd completes
PhrasesDone ==
    \E i \in 1..Len(inflight) : \E raw \in RawPhrases \cup {""} :
        /\ inflight[i].kind = "phrases"
        /\ LET ev == [type    |-> "phrasesResult", phrases |-> raw,
                      err     |-> IF raw = "" THEN "OPENAI_API_KEY is not set" ELSE ""]
           IN  Step(phrasesResult(M, ev), ev, Without(inflight, i))

\* spinner ticks, window resizes and keys other than enter reach update and
\* leave the fields of the model above unchanged (a blurred input ignores keys)
UiEvent ==
    \E type \in {"tick", "key", "resize"} :
        /\ msg.type = "none"
        /\ Step(Ret(M, <<>>, <<>>), [type |-> type], inflight)

\* Update returns: the event loop takes the commands and waits for a message.
\* Nothing is said of when, or in which order, their lines reach the terminal.
Flush ==
    /\ msg.type # "none"
    /\ msg' = [type |-> "none"]
    /\ out' = <<>>
    /\ UNCHANGED <<lastTranslation, lastWord, lastPhrases, shownEntries, busy, busyMsg,
                   focus, inflight, rendered>>
    /\ UNCHANGED functions

Next ==
    \/ Flush
    \/ Enter
    \/ TranslateDone
    \/ ListDecksDone
    \/ ListTemplatesDone
    \/ EditorDone
    \/ CreateCardsDone
    \/ CreatePhraseCardsDone
    \/ PhrasesDone
    \/ UiEvent

Spec == Init /\ [][Next]_vars

\* a collaborator call delivers its completion message and update handles it
Complete ==
    \/ TranslateDone
    \/ ListDecksDone
    \/ ListTemplatesDone
    \/ EditorDone
    \/ CreateCardsDone
    \/ CreatePhraseCardsDone
    \/ PhrasesDone

\* Complete is enabled exactly when update is not in progress and a call is
\* outstanding: every kind of call has its completion, and handling it changes msg
CanComplete == msg.type = "none" /\ Len(inflight) >= 1

\* Every collaborator call runs in a goroutine of its own and sends its
\* completion message to the event loop, which handles every message it is
\* sent; every call of Update returns:
\* weak fairness of Flush and strong fairness of Complete.  The latter is
\* written out, SF_vars(Complete) being []<>ENABLED <<Complete>>_vars =>
\* []<><<Complete>>_vars, with CanComplete for the enabling condition.
FairSpec ==
    /\ Init /\ [][Next]_vars
    /\ WF_vars(Flush)
    /\ []<>CanComplete => []<><<Complete>>_vars

(***************************************************************************)
(* The lookup service run on its own: Translate applied to one page.       *)
(***************************************************************************)
RowClasses == {"even", "odd", "langHeader"}

ClassLists == UNION {[1..k -> RowClasses] : k \in 0..MaxRows}

\* the i-th row of a table: a headword row or a further-translation row
PageRow(class, i) ==
    IF i % 2 = 1 THEN HeadRow(class, "w" \o Itoa(i), "t" \o Itoa(i))
    ELSE MoreRow(class, "u" \o Itoa(i))

\* pages of one dictionary table, one per list of row classes
OneTablePages ==
    {[noEntry |-> "",
      tables  |-> <<[class |-> "WRD", title |-> <<"verb">>,
                     rows  |-> [i \in 1..Len(cs) |-> PageRow(cs[i], i)]]>>] : cs \in ClassLists}

\* "other": a table that is no dictionary table; <<>>: a dictionary table without title
TableKinds == {<<"other">>, <<>>, <<"verb">>, <<"noun">>}

KindLists == UNION {[1..k -> TableKinds] : k \in 1..MaxTables}

\* the j-th table of a page holds one or two senses of its own
PageTable(kind, j) ==
    [class |-> IF kind = <<"other">> THEN "other" ELSE "WRD",
     title |-> IF kind = <<"other">> THEN <<>> ELSE kind,
     rows  |-> <<OtherRow>> \o SensesRows("w" \o Itoa(j), 1, (j % 2) + 1)]

ManyTablePages ==
    {[noEntry |-> "", tables |-> [j \in 1..Len(ks) |-> PageTable(ks[j], j)]] : ks \in KindLists}

NotFoundPage == [noEntry |-> "No translation found for 'w'.", tables |-> <<>>]

Pages == OneTablePages \cup ManyTablePages \cup {NotFoundPage}

\* the tables selected by "table.WRD"
WrdTables(p) == SelectSeq(p.tables, LAMBDA t : t.class = "WRD")

ParserInit ==
    /\ newChatModel
    /\ page \in Pages
    /\ result = <<>>
    /\ response = ""
    /\ extracted = <<>>

\* Translate("w") runs on page; scans holds, per dictionary table, the entries
\* and the row groups of its row loop
TranslatePage ==
    \E netErr \in NetErrs :
        /\ result = <<>>
        /\ LET r == Translate("w", netErr, page)
           IN  result' = <<[translation |-> r.translation,
                            err         |-> r.err,
                            scans       |-> IF r.err # "" THEN <<>>
                                            ELSE [t \in 1..Len(WrdTables(page)) |->
                                                     ScanTable(WrdTables(page)[t])]]>>
        /\ UNCHANGED <<chat, page, response, extracted>>

ParserNext == TranslatePage

ParserSpec == ParserInit /\ [][ParserNext]_vars

(***************************************************************************)
(* Vocabulary of the properties.                                           *)
(***************************************************************************)
HasTranslation == lastTranslation # <<>>

\* entries of the current Translation, flattened over its sections
CurEntries ==
    IF HasTranslation
    THEN Flatten([i \in 1..Len(lastTranslation[1].Translations) |->
                     lastTranslation[1].Translations[i].Entries])
    ELSE <<>>

Total == Len(CurEntries)

\* the step handles an enter event whose input line starts with command c
EnterOf(c) ==
    /\ msg'.type = "enter"
    /\ Len(Fields(msg'.value)) >= 1
    /\ Fields(msg'.value)[1] = c

\* the arguments typed after the command
ArgsOf(value) == Tail(Fields(value))

\* token tok is the decimal numeral of an integer in [1, k]
IsIndexIn(tok, k) == \E n \in 1..k : tok = Itoa(n)

\* token tok is a decimal numeral
IsNumeral(tok) == \E n \in 0..(MaxIdx + 1) : tok = Itoa(n)

\* items are exactly the entries [from, to) (0-based), numbered from+1 .. to
ShowsRange(line, entries, from, to) ==
    /\ line.style = "entries"
    /\ Len(line.items) = to - from
    /\ \A k \in 1..(to - from) :
          line.items[k].n = from + k /\ line.items[k].entry = entries[from + k]

\* the step printed the echo of the input followed by one error line
PrintsError == Len(out') = 2 /\ out'[2].style = "err"

\* the step dispatched nothing and left the session idle and unchanged
NoEffect == inflight' = <<>> /\ ~busy' /\ session' = session

CompletionTypes ==
    {"translateResult", "listDecksResult", "listTemplatesResult", "editorFinished",
     "addCardResult", "phrasesResult"}

(***************************************************************************)
(* C1: whenever lastTranslation is set, 0 <= shownEntries <= the number of *)
(* entries of lastTranslation flattened over all sections.                 *)
(***************************************************************************)
C1_CursorWithinTotal == HasTranslation => (0 <= shownEntries /\ shownEntries <= Total)

\* a lookup of more than one page was paged to its end
C1_Witness ==
    /\ HasTranslation /\ Total > pageSize /\ shownEntries = Total
    /\ msg.type = "enter" /\ Len(Fields(msg.value)) >= 1
    /\ Fields(msg.value)[1] \in {"/more", "/all"}

(***************************************************************************)
(* C2: while the session is busy an enter event, whatever the input line   *)
(* holds, changes no session state and dispatches no collaborator call.    *)
(***************************************************************************)
C2_BusyEnterIgnored ==
    [][(busy /\ msg'.type = "enter")
        => (session' = session /\ busy' /\ inflight' = inflight /\ out' = <<>>)]_vars

\* enter was pressed on "/more" while the deck listing was outstanding
C2_Witness ==
    /\ busy /\ msg.type = "enter" /\ msg.value = "/more"
    /\ Len(inflight) = 1 /\ inflight[1].kind = "listDecks"

(***************************************************************************)
(* C3: at most one collaborator call is outstanding and busy is true       *)
(* exactly when one is, also right after a successful editor completion    *)
(* dispatched card creation.                                               *)
(***************************************************************************)
C3_OneCallIffBusy == Len(inflight) <= 1 /\ (busy <=> Len(inflight) = 1)

\* the editor returned and card creation is the one outstanding call
C3_Witness ==
    /\ msg.type = "editorFinished" /\ msg.err = ""
    /\ busy /\ Len(inflight) = 1 /\ inflight[1].kind = "createCards"

(***************************************************************************)
(* C4 (as stated): for a Translation with K entries /add and /phrases      *)
(* proceed exactly when every argument is an integer in [1, K]; otherwise  *)
(* an error line is printed, nothing is dispatched, busy stays false and   *)
(* the session is unchanged.  (Stated for steps in which the records are   *)
(* encoded and the temporary file is created and written.)                 *)
(***************************************************************************)
\* the step opened the editor (/add) or dispatched phrase generation (/phrases)
Proceeds(kind) == busy' /\ Len(inflight') = 1 /\ inflight'[1].kind = kind

C4_Original ==
    [][\A c \in {"/add", "/phrases"} :
         (~busy /\ HasTranslation /\ EnterOf(c) /\ Len(ArgsOf(msg'.value)) >= 1
            /\ msg'.fault = "")
         => LET args  == ArgsOf(msg'.value)
                valid == \A i \in 1..Len(args) : IsIndexIn(args[i], Total)
                kind  == IF c = "/add" THEN "editor" ELSE "phrases"
            IN  /\ Proceeds(kind) <=> valid
                /\ ~valid => (PrintsError /\ NoEffect)]_vars

(***************************************************************************)
(* C4 (amended): /add opens the editor exactly when every argument is an   *)
(* integer in [1, K] and the records were encoded and the temporary file   *)
(* was created and written; /phrases                                       *)
(* dispatches phrase generation, for the entry its first argument names,   *)
(* exactly when that first argument is an integer in [1, K] (further       *)
(* tokens are ignored).  In every other case an error line is printed,     *)
(* nothing is dispatched, busy stays false and the session is unchanged.   *)
(***************************************************************************)
C4_IndexValidation ==
    [][/\ (~busy /\ HasTranslation /\ EnterOf("/add") /\ Len(ArgsOf(msg'.value)) >= 1)
          => LET args  == ArgsOf(msg'.value)
                 valid == \A i \in 1..Len(args) : IsIndexIn(args[i], Total)
             IN  /\ Proceeds("editor") <=> (valid /\ msg'.fault = "")
                 /\ Proceeds("editor") => (session' = session /\ Len(out') = 1)
                 /\ ~Proceeds("editor") => (PrintsError /\ NoEffect)
       /\ (~busy /\ HasTranslation /\ EnterOf("/phrases") /\ Len(ArgsOf(msg'.value)) >= 1)
          => LET first == ArgsOf(msg'.value)[1]
             IN  /\ Proceeds("phrases") <=> IsIndexIn(first, Total)
                 /\ Proceeds("phrases")
                    => /\ session' = session /\ Len(out') = 1
                       /\ \E n \in 1..Total :
                             first = Itoa(n) /\ inflight'[1].arg = <<CurEntries[n]>>
                 /\ ~Proceeds("phrases") => (PrintsError /\ NoEffect)]_vars

\* phrase generation was dispatched although a later token is no valid index
C4_Witness ==
    /\ msg.type = "enter" /\ msg.value = "/phrases 1 0"
    /\ busy /\ Len(inflight) = 1 /\ inflight[1].kind = "phrases"

(***************************************************************************)
(* C5 (as stated): with L >= 1 stored phrases, /cards with any argument    *)
(* that is non-numeric or outside [1, L] prints an error naming that index *)
(* and the range 1-L, dispatches no card creation and stays idle.          *)
(***************************************************************************)
InvalidIndexText(tok, len) == "Invalid index: " \o tok \o " (must be 1-" \o Itoa(len) \o ")"

\* position of the first argument that is no integer in [1, len], 0 if none
FirstBad(args, len) ==
    IF \A i \in 1..Len(args) : IsIndexIn(args[i], len) THEN 0
    ELSE CHOOSE i \in 1..Len(args) :
            /\ ~IsIndexIn(args[i], len)
            /\ \A j \in 1..(i - 1) : IsIndexIn(args[j], len)

CardsWithBadIndex ==
    /\ ~busy /\ Len(lastPhrases) >= 1
    /\ (EnterOf("/cards") \/ EnterOf("/card"))
    /\ Len(ArgsOf(msg'.value)) >= 1
    /\ FirstBad(ArgsOf(msg'.value), Len(lastPhrases)) # 0

C5_Original ==
    [][CardsWithBadIndex
       => /\ PrintsError /\ NoEffect
          /\ \E i \in 1..Len(ArgsOf(msg'.value)) :
                /\ ~IsIndexIn(ArgsOf(msg'.value)[i], Len(lastPhrases))
                /\ out'[2].text = InvalidIndexText(ArgsOf(msg'.value)[i], Len(lastPhrases))]_vars

(***************************************************************************)
(* C5 (amended): with L >= 1 stored phrases, /cards checks its arguments   *)
(* in order before dispatching anything; at the first argument that is     *)
(* non-numeric or outside [1, L] it prints an error, dispatches no card    *)
(* creation and stays idle with the session unchanged.  For a number       *)
(* outside [1, L] the error names the index and the range ("Invalid index: *)
(* 2 (must be 1-1)"), for a non-numeric token it names the token           *)
(* ("x" is not a number) and no range.                                     *)
(***************************************************************************)
C5_CardsIndexValidation ==
    [][CardsWithBadIndex
       => LET args == ArgsOf(msg'.value)
              bad  == args[FirstBad(args, Len(lastPhrases))]
          IN  /\ PrintsError /\ NoEffect
              /\ IsNumeral(bad) => out'[2].text = InvalidIndexText(bad, Len(lastPhrases))
              /\ ~IsNumeral(bad) => out'[2].text = "\"" \o bad \o "\" is not a number"
              /\ (msg'.value = "/cards 1 2" /\ Len(lastPhrases) = 1)
                 => out'[2].text = "Invalid index: 2 (must be 1-1)"]_vars

\* "/cards 1 2" was entered with one stored phrase
C5_Witness ==
    /\ msg.type = "enter" /\ msg.value = "/cards 1 2" /\ Len(lastPhrases) = 1
    /\ ~busy /\ inflight = <<>>
    /\ Len(out) = 2 /\ out[2].text = "Invalid index: 2 (must be 1-1)"

(***************************************************************************)
(* C6: /more with lastTranslation set and cursor c < total renders exactly *)
(* the entries [c, min(c+5, total)) and sets shownEntries to               *)
(* min(c+5, total); with c = total it prints "No more results." (not an    *)
(* error), renders no entry and leaves shownEntries unchanged.             *)
(***************************************************************************)
C6_MorePage ==
    [][(~busy /\ HasTranslation /\ EnterOf("/more"))
       => LET c   == shownEntries
              end == IF c + 5 < Total THEN c + 5 ELSE Total
          IN  /\ Len(out') = 2 /\ inflight' = <<>> /\ ~busy'
              /\ <<lastTranslation', lastWord', lastPhrases'>>
                   = <<lastTranslation, lastWord, lastPhrases>>
              /\ c < Total => /\ ShowsRange(out'[2], CurEntries, c, end)
                              /\ shownEntries' = end
              /\ c = Total => /\ out'[2].style = "dim"
                              /\ out'[2].text = "No more results."
                              /\ out'[2].items = <<>>
                              /\ shownEntries' = shownEntries]_vars

\* /more showed a full middle page: entries 6..10 of 11
C6_Witness ==
    /\ msg.type = "enter" /\ msg.value = "/more"
    /\ HasTranslation /\ Total = 11 /\ shownEntries = 10
    /\ Len(out) = 2 /\ Len(out[2].items) = 5 /\ out[2].items[1].n = 6

(***************************************************************************)
(* C7: /all with cursor c < total renders the remaining entries [c, total) *)
(* and sets shownEntries = total; with the cursor at total every /all,     *)
(* however often repeated, prints "No more results.", renders no entry and *)
(* leaves the session state unchanged (so the cursor is at total again).   *)
(***************************************************************************)
C7_AllThenNoMore ==
    [][(~busy /\ HasTranslation /\ EnterOf("/all"))
       => /\ Len(out') = 2 /\ inflight' = <<>> /\ ~busy'
          /\ <<lastTranslation', lastWord', lastPhrases'>>
               = <<lastTranslation, lastWord, lastPhrases>>
          /\ shownEntries' = Total
          /\ shownEntries < Total => ShowsRange(out'[2], CurEntries, shownEntries, Total)
          /\ shownEntries = Total => /\ out'[2].style = "dim"
                                     /\ out'[2].text = "No more results."
                                     /\ out'[2].items = <<>>
                                     /\ session' = session]_vars

\* /all was repeated with the cursor already at the total of a non-empty Translation
C7_Witness ==
    /\ msg.type = "enter" /\ msg.value = "/all"
    /\ HasTranslation /\ Total > 0 /\ shownEntries = Total
    /\ Len(out) = 2 /\ out[2].text = "No more results."

(***************************************************************************)
(* C8: a rendered page [start, end) carries the "Showing <end> of <total>" *)
(* hint exactly when end < total.  For a lookup returning 7 entries the    *)
(* first render shows entries 1-5 with "Showing 5 of 7", the next /more    *)
(* shows entries 6-7 without hint and a further /more prints "No more      *)
(* results."                                                               *)
(***************************************************************************)
\* the step rendered a page of entries as its last printed line
RendersPage == Len(out') >= 1 /\ out'[Len(out')].style = "entries"

PageLine == out'[Len(out')]

C8_HintIffMore ==
    [][/\ RendersPage
          => LET end   == shownEntries'
                 total == Len(flattenEntries(lastTranslation'[1]))
             IN  /\ end < total
                    => HasPrefix(PageLine.text,
                                 "  Showing " \o Itoa(end) \o " of " \o Itoa(total) \o " ")
                 /\ ~(end < total) => PageLine.text = ""
       /\ (msg'.type = "translateResult" /\ msg'.err = ""
             /\ Len(flattenEntries(msg'.translation[1])) = 7)
          => /\ RendersPage
             /\ ShowsRange(PageLine, flattenEntries(msg'.translation[1]), 0, 5)
             /\ HasPrefix(PageLine.text, "  Showing 5 of 7 ")
       /\ (~busy /\ HasTranslation /\ Total = 7 /\ shownEntries = 5 /\ EnterOf("/more"))
          => /\ RendersPage
             /\ ShowsRange(PageLine, CurEntries, 5, 7)
             /\ PageLine.text = ""
             /\ shownEntries' = 7
       /\ (~busy /\ HasTranslation /\ Total = 7 /\ shownEntries = 7 /\ EnterOf("/more"))
          => /\ ~RendersPage
             /\ out'[Len(out')].text = "No more results."]_vars

\* the third step of the scenario: /more after entries 6-7 of 7 were shown
C8_Witness ==
    /\ msg.type = "enter" /\ msg.value = "/more"
    /\ HasTranslation /\ Total = 7 /\ shownEntries = 7 /\ lastWord = "casa"
    /\ Len(out) = 2 /\ out[2].text = "No more results."

(***************************************************************************)
(* C9: a successful lookup completion replaces lastTranslation by the new  *)
(* Translation, renders the first page [0, min(5, total)) and leaves       *)
(* shownEntries = min(5, total), whatever cursor and Translation were held *)
(* before; busy is cleared in the same step.                               *)
(***************************************************************************)
C9_LookupResetsCursor ==
    [][(msg'.type = "translateResult" /\ msg'.err = "")
       => LET entries == flattenEntries(msg'.translation[1])
              end     == IF 5 < Len(entries) THEN 5 ELSE Len(entries)
          IN  /\ lastTranslation' = msg'.translation
              /\ lastWord' = msg'.word
              /\ shownEntries' = end
              /\ Len(out') = 1 /\ ShowsRange(out'[1], entries, 0, end)
              /\ out'[1].header = <<msg'.word>>
              /\ ~busy' /\ inflight' = <<>>]_vars

\* the lookup of a two-entry word completed: both entries are shown, the session is idle
C9_Witness ==
    /\ msg.type = "translateResult" /\ msg.err = "" /\ msg.word = "sol"
    /\ HasTranslation /\ lastTranslation = msg.translation
    /\ Total = 2 /\ shownEntries = 2 /\ ~busy

(***************************************************************************)
(* C10: a lookup that completes with an error (network failure or word not *)
(* found) leaves lastTranslation, lastWord, shownEntries and lastPhrases   *)
(* as they were when the lookup was issued (no step taken while the lookup *)
(* is outstanding changes them), prints an error line and clears busy, so  *)
(* later commands operate on the prior Translation.                        *)
(***************************************************************************)
LookupOutstanding == Len(inflight) = 1 /\ inflight[1].kind = "translate"

C10_FailedLookupKeepsState ==
    [][/\ (msg'.type = "translateResult" /\ msg'.err # "")
          => /\ session' = session
             /\ Len(out') = 1 /\ out'[1].style = "err"
             /\ out'[1].text = "Error: " \o msg'.err
             /\ ~busy' /\ inflight' = <<>>
       /\ (LookupOutstanding /\ msg'.type # "translateResult") => session' = session]_vars

\* the lookup of an unknown word failed while a Translation was held
C10_Witness ==
    /\ msg.type = "translateResult" /\ msg.err # "" /\ msg.word = "zzz"
    /\ HasTranslation /\ shownEntries > 0 /\ ~busy /\ inflight = <<>>

(***************************************************************************)
(* C11: input errors never change session state.  An unrecognized /x       *)
(* command, /add, /phrases or /cards without argument, /more, /all, /add   *)
(* or /phrases without lastTranslation and /cards with empty lastPhrases   *)
(* each print an error line, dispatch no collaborator call, leave busy     *)
(* false and leave lastTranslation, shownEntries and lastPhrases (and      *)
(* lastWord) unchanged.                                                    *)
(***************************************************************************)
KnownCommands ==
    {"/help", "/more", "/all", "/decks", "/templates", "/add", "/phrases", "/cards", "/card"}

\* the step handles an enter event whose input line is a command no case matches
EnterUnknown ==
    /\ msg'.type = "enter"
    /\ Len(Fields(msg'.value)) >= 1
    /\ HasPrefix(Fields(msg'.value)[1], "/")
    /\ Fields(msg'.value)[1] \notin KnownCommands

\* the step handles an enter event whose input line is command c without argument
EnterBare(c) == EnterOf(c) /\ Len(Fields(msg'.value)) = 1

InputError ==
    \/ EnterUnknown
    \/ \E c \in {"/add", "/phrases", "/cards", "/card"} : EnterBare(c)
    \/ \E c \in {"/more", "/all", "/add", "/phrases"} : EnterOf(c) /\ ~HasTranslation
    \/ \E c \in {"/cards", "/card"} : EnterOf(c) /\ Len(lastPhrases) = 0

C11_InputErrorsKeepState ==
    [][(~busy /\ InputError)
       => /\ PrintsError /\ NoEffect
          /\ EnterUnknown
             => out'[2].text = "Unknown command: " \o Fields(msg'.value)[1]]_vars

\* an unknown command was entered while a Translation and phrases were held
C11_Witness ==
    /\ msg.type = "enter" /\ msg.value = "/x"
    /\ HasTranslation /\ shownEntries > 0 /\ Len(lastPhrases) >= 1
    /\ ~busy /\ inflight = <<>>
    /\ Len(out) = 2 /\ out[2].style = "err" /\ out[2].text = "Unknown command: /x"

(***************************************************************************)
(* C12: if every dispatched collaborator call eventually delivers its      *)
(* completion message, every busy state is eventually followed by an idle  *)
(* state; and every completion that carries an error (lookup, listing,     *)
(* phrase generation, card creation, editor failure, malformed edited      *)
(* record) clears busy in the very step that prints the error line.        *)
(***************************************************************************)
ErrorCompletion == msg'.type \in CompletionTypes /\ msg'.err # ""

C12_BusyEndsIdle ==
    /\ busy ~> ~busy
    /\ [][ErrorCompletion
           => /\ ~busy' /\ focus' /\ inflight' = <<>>
              /\ Len(out') = 1 /\ out'[1].style = "err"
              /\ session' = session]_vars

\* the edited record was malformed: card creation reported it and the session is idle
C12_Witness ==
    /\ msg.type = "addCardResult" /\ HasPrefix(msg.err, "invalid yaml: ")
    /\ ~busy /\ inflight = <<>>
    /\ Len(out) = 1 /\ out[1].style = "err"

(***************************************************************************)
(* The phrase extraction run on its own: parsePhrases applied to one       *)
(* response of the completion service.                                     *)
(***************************************************************************)
Tokens == {"- ", "**", PhraseSep, "a", "b", "\n"}

TokenLists == UNION {[1..k -> Tokens] : k \in 0..MaxToks}

\* a line in the format the prompt of phrasesCmd asks for, to the letter
ExampleLine == "- Hola **mundo** " \o PromptDash \o " Hello **world**"

\* the same line with the separator parsePhrases splits at
DashLine == "- Hola **mundo**" \o PhraseSep \o "Hello **world**"

\* every text of up to MaxToks tokens, the responses of the session model and
\* the two example lines
Responses ==
    {Join(ts, "") : ts \in TokenLists} \cup RawPhrases \cup {ExampleLine, DashLine}

PhrasesInit ==
    /\ newChatModel
    /\ page = NoPage
    /\ result = <<>>
    /\ response \in Responses
    /\ extracted = <<>>

ExtractPhrases ==
    /\ extracted = <<>>
    /\ extracted' = <<parsePhrases(response)>>
    /\ UNCHANGED <<chat, page, result, response>>

PhrasesNext == ExtractPhrases

PhrasesSpec == PhrasesInit /\ [][PhrasesNext]_vars

(***************************************************************************)
(* Vocabulary of the properties of the lookup service run on its own.      *)
(***************************************************************************)
\* Translate returned a Translation
Parsed == result # <<>> /\ result[1].err = ""

Sections == result[1].translation[1].Translations

\* number of maximal runs of consecutive rows of the same class
Runs(rows) == Cardinality({i \in 1..Len(rows) : i = 1 \/ rows[i].class # rows[i - 1].class})

\* titles of the dictionary tables of the page, in document order
PageTitles == [t \in 1..Len(WrdTables(page)) |-> SectionTitle(WrdTables(page)[t])]

(***************************************************************************)
(* C13: for every sequence of qualifying rows of one table the parser      *)
(* produces exactly as many entries as there are maximal runs of           *)
(* consecutive rows of the same marker class; each group is non-empty (and *)
(* is one such run) and the groups concatenated in order are the input row *)
(* sequence; a table with zero qualifying rows produces zero entries.      *)
(***************************************************************************)
C13_GroupsAreRuns ==
    Parsed
    => \A t \in 1..Len(WrdTables(page)) :
          LET rows    == QualifyingRows(WrdTables(page)[t])
              entries == result[1].scans[t].entries
              groups  == result[1].scans[t].groups
          IN  /\ Len(entries) = Runs(rows)
              /\ Len(groups) = Len(entries)
              /\ \A g \in 1..Len(groups) :
                    /\ Len(groups[g]) > 0
                    /\ \A i \in 1..Len(groups[g]) : groups[g][i].class = groups[g][1].class
              /\ \A g \in 1..(Len(groups) - 1) :
                    groups[g][1].class # groups[g + 1][1].class
              /\ Flatten(groups) = rows
              /\ rows = <<>> => entries = <<>>
              /\ Len(WrdTables(page)) = 1
                 => /\ Len(Sections) = 1
                    /\ Len(Sections[1].Entries) = Runs(rows)

\* a table of four rows, three of them qualifying, gave two entries
C13_Witness ==
    /\ Parsed /\ Len(WrdTables(page)) = 1
    /\ Len(page.tables[1].rows) = 4
    /\ Len(QualifyingRows(page.tables[1])) = 3
    /\ Len(Sections) = 1 /\ Len(Sections[1].Entries) = 2
    /\ Len(result[1].scans[1].groups[1]) = 2

(***************************************************************************)
(* C14 (as stated): when the same section title occurs on several tables   *)
(* of one document, the section's entry sequence after parsing is the      *)
(* concatenation, in document order, of the entries of all tables carrying *)
(* that title.                                                             *)
(***************************************************************************)
C14_SectionsAccumulate ==
    Parsed
    => \A s \in 1..Len(Sections) :
          Sections[s].Entries
            = Flatten([t \in 1..Len(WrdTables(page)) |->
                          IF PageTitles[t] = Sections[s].Title
                          THEN result[1].scans[t].entries ELSE <<>>])

(***************************************************************************)
(* C15: within one Translation no two sections have the same title (two    *)
(* tables both titled "verb" yield exactly one section named "verb"), the  *)
(* sections are those of the titles of the tables, and they appear in      *)
(* order of first occurrence of their title.                               *)
(***************************************************************************)
\* position of the first dictionary table with this title
FirstAt(title) ==
    CHOOSE t \in 1..Len(PageTitles) :
        PageTitles[t] = title /\ \A u \in 1..(t - 1) : PageTitles[u] # title

C15_TitlesUnique ==
    Parsed
    => /\ \A i, j \in 1..Len(Sections) : i # j => Sections[i].Title # Sections[j].Title
       /\ {Sections[i].Title : i \in 1..Len(Sections)}
            = {PageTitles[t] : t \in 1..Len(PageTitles)}
       /\ \A i, j \in 1..Len(Sections) :
             i < j => FirstAt(Sections[i].Title) < FirstAt(Sections[j].Title)
       /\ (\E t \in 1..Len(PageTitles) : PageTitles[t] = "verb")
          => Cardinality({i \in 1..Len(Sections) : Sections[i].Title = "verb"}) = 1

\* tables titled verb, noun, verb gave the two sections verb and noun
C15_Witness ==
    /\ Parsed
    /\ PageTitles = <<"verb", "noun", "verb">>
    /\ Len(Sections) = 2 /\ Sections[1].Title = "verb" /\ Sections[2].Title = "noun"

(***************************************************************************)
(* Vocabulary of the properties of the phrase extraction run on its own.   *)
(***************************************************************************)
ResponseLines == Split(response, "\n")

\* the line without surrounding space, leading bullet and bold markers
Plain(line) == ReplaceAll(TrimPrefix(TrimSpace(line), "- "), "**", "")

\* the two parts of a line around its first separator
FirstSplit(plain) ==
    LET i == Index(plain, PhraseSep)
    IN  [Source |-> SubSeq(plain, 1, i - 1),
         Target |-> SubSeq(plain, i + Len(PhraseSep), Len(plain))]

HasSeparator(i) == Index(Plain(ResponseLines[i]), PhraseSep) > 0

\* line i splits at its first separator into two non-empty parts
WellFormed(i) ==
    /\ HasSeparator(i)
    /\ FirstSplit(Plain(ResponseLines[i])).Source # ""
    /\ FirstSplit(Plain(ResponseLines[i])).Target # ""

\* lines that hold the separator next to an empty part
EmptyPartLines == {i \in 1..Len(ResponseLines) : HasSeparator(i) /\ ~WellFormed(i)}

(***************************************************************************)
(* C16 (as stated): every Phrase produced by phrase extraction has a       *)
(* non-empty Source and a non-empty Target; a line that, bullet and bold   *)
(* markers stripped, does not split on the separator into exactly two      *)
(* non-empty parts contributes no Phrase.                                  *)
(***************************************************************************)
C16_PhrasesNonEmpty ==
    extracted # <<>>
    => \A k \in 1..Len(extracted[1]) :
          extracted[1][k].Source # "" /\ extracted[1][k].Target # ""

(***************************************************************************)
(* C17: phrase extraction processes every line independently and in order. *)
(* A line without the separator yields no Phrase and does not stop later   *)
(* lines from being parsed; each well-formed line yields one Phrase, split *)
(* at the first separator, bullet and bold markers removed; output order   *)
(* is line order.  (Nothing is said here of a line that holds the          *)
(* separator next to an empty part: it may yield its split or nothing.)    *)
(* "- Hola **mundo** ~ Hello **world**" gives Source "Hola mundo" and      *)
(* Target "Hello world".                                                   *)
(***************************************************************************)
C17_LinesInOrder ==
    extracted # <<>>
    => /\ \E kept \in SUBSET EmptyPartLines :
             LET yielding == SelectSeq([i \in 1..Len(ResponseLines) |-> i],
                                       LAMBDA i : WellFormed(i) \/ i \in kept)
             IN  extracted[1] = [k \in 1..Len(yielding) |->
                                    FirstSplit(Plain(ResponseLines[yielding[k]]))]
       /\ response = DashLine
          => extracted[1] = <<[Source |-> "Hola mundo", Target |-> "Hello world"]>>

\* a line without separator came first and the line after it was parsed
C17_Witness ==
    /\ response = "Here you go\n- Una **casa** ~ A **house**"
    /\ extracted = <<<<[Source |-> "Una casa", Target |-> "A house"]>>>>

(***************************************************************************)
(* Vocabulary of the properties of /add and card creation.                 *)
(***************************************************************************)
\* the number an index token names
IndexOf(tok) == CHOOSE n \in 1..Total : tok = Itoa(n)

\* the step handles /add whose arguments are all indices of the Translation
AddWithValidIndices ==
    /\ ~busy /\ HasTranslation /\ EnterOf("/add")
    /\ Len(ArgsOf(msg'.value)) >= 1
    /\ \A i \in 1..Len(ArgsOf(msg'.value)) : IsIndexIn(ArgsOf(msg'.value)[i], Total)
    /\ msg'.fault = ""

\* the editable records of the entries the arguments name, in argument order
RecordsOf(args) ==
    [i \in 1..Len(args) |-> yamlEncode(entryTemplate(CurEntries[IndexOf(args[i])]))]

\* number of records in the content handed to the editor
RecordCount(content) == Len(content)

\* the step handles the completion of card creation for the records of /add
CardsOfRecordsDone ==
    /\ Len(inflight) = 1 /\ inflight[1].kind = "createCards"
    /\ msg'.type = "addCardResult"

(***************************************************************************)
(* C18 (as stated): /add with k valid indices builds k editable records,   *)
(* one per index in argument order; when the editor returns them unedited  *)
(* and every card-service call succeeds, two cards (forward and reverse)   *)
(* are created for each of the k records, 2k cards in total.               *)
(***************************************************************************)
C18_TwoCardsPerRecord ==
    [][/\ AddWithValidIndices
          => /\ Proceeds("editor")
             /\ inflight'[1].arg = RecordsOf(ArgsOf(msg'.value))
       /\ (msg'.type = "editorFinished" /\ msg'.err = "")
          => inflight' = <<Call("createCards", msg'.content)>>
       /\ (CardsOfRecordsDone /\ msg'.err = "")
          => /\ msg'.count = 2 * RecordCount(inflight[1].arg)
             /\ out' = <<Line("success", "Successfully created "
                                          \o Itoa(2 * RecordCount(inflight[1].arg))
                                          \o " card(s).")>>]_vars

(***************************************************************************)
(* C19 (as stated): when card creation fails partway through a batch after *)
(* N cards were created, the error line printed for the user states the    *)
(* count N.                                                                *)
(***************************************************************************)
C19_ErrorStatesCount ==
    [][(msg'.type = "addCardResult" /\ HasPrefix(msg'.err, "failed to create card")
          /\ msg'.count >= 1)
       => /\ Len(out') = 1 /\ out'[1].style = "err"
          /\ Index(out'[1].text, Itoa(msg'.count)) > 0]_vars

(***************************************************************************)
(* C20: for the life of the current Translation the 1-based index n names  *)
(* the same entry, the n-th in section order and then entry order within   *)
(* the section.  Only a successful lookup completion changes               *)
(* lastTranslation; every entry is rendered under the number of its        *)
(* position, and /add n and /phrases n act on the entry at position n.     *)
(***************************************************************************)
\* entries of the Translation held after the step
NextEntries ==
    Flatten([i \in 1..Len(lastTranslation'[1].Translations) |->
                lastTranslation'[1].Translations[i].Entries])

C20_IndexStable ==
    [][/\ lastTranslation' # lastTranslation
          => /\ msg'.type = "translateResult" /\ msg'.err = ""
             /\ lastTranslation' = msg'.translation
       /\ \A l \in 1..Len(out') :
             out'[l].style = "entries"
             => \A k \in 1..Len(out'[l].items) :
                   /\ out'[l].items[k].n \in 1..Len(NextEntries)
                   /\ out'[l].items[k].entry = NextEntries[out'[l].items[k].n]
       /\ AddWithValidIndices
          => inflight' = <<Call("editor", RecordsOf(ArgsOf(msg'.value)))>>
       /\ (~busy /\ HasTranslation /\ EnterOf("/phrases")
             /\ Len(ArgsOf(msg'.value)) >= 1 /\ IsIndexIn(ArgsOf(msg'.value)[1], Total))
          => inflight' = <<Call("phrases",
                                <<CurEntries[IndexOf(ArgsOf(msg'.value)[1])]>>)>>]_vars

\* after paging through two sections, /phrases 2 was dispatched for the second entry
C20_Witness ==
    /\ msg.type = "enter" /\ msg.value = "/phrases 2"
    /\ HasTranslation /\ Len(lastTranslation[1].Translations) = 2
    /\ shownEntries = Total /\ Total > pageSize
    /\ inflight = <<Call("phrases", <<CurEntries[2]>>)>>

(***************************************************************************)
(* C21: lastPhrases is replaced wholesale by the phrases parsed from each  *)
(* successful phrase-generation completion (nothing of the previous batch  *)
(* survives, also when the new batch parses to zero phrases), is left      *)
(* unchanged by a completion with an error and by every other step, and    *)
(* /cards validates its indices against this current batch only.           *)
(***************************************************************************)
\* the step handles /cards with at least one argument from an idle session with phrases
CardsWithArgs ==
    /\ ~busy /\ Len(lastPhrases) >= 1
    /\ (EnterOf("/cards") \/ EnterOf("/card"))
    /\ Len(ArgsOf(msg'.value)) >= 1

C21_PhrasesReplaced ==
    [][/\ (msg'.type = "phrasesResult" /\ msg'.err = "")
          => /\ lastPhrases' = parsePhrases(msg'.phrases)
             /\ msg'.phrases = "sorry, no sentences" => lastPhrases' = <<>>
       /\ (msg'.type = "phrasesResult" /\ msg'.err # "") => lastPhrases' = lastPhrases
       /\ lastPhrases' # lastPhrases => (msg'.type = "phrasesResult" /\ msg'.err = "")
       /\ CardsWithArgs
          => LET args == ArgsOf(msg'.value)
             IN  IF \A i \in 1..Len(args) : IsIndexIn(args[i], Len(lastPhrases))
                 THEN /\ Proceeds("createPhraseCards")
                      /\ inflight'[1].arg = [i \in 1..Len(args) |->
                                                lastPhrases[CHOOSE n \in 1..Len(lastPhrases) :
                                                               args[i] = Itoa(n)]]
                 ELSE PrintsError /\ NoEffect]_vars

\* a generation that gave no phrase line completed and left an empty batch
C21_Witness ==
    /\ msg.type = "phrasesResult" /\ msg.err = ""
    /\ msg.phrases = "sorry, no sentences"
    /\ lastPhrases = <<>> /\ ~busy

(***************************************************************************)
(* C22: during the life of one Translation shownEntries never decreases:   *)
(* every step of a command or completion other than a successful lookup    *)
(* completion leaves the cursor at or above its old value.                 *)
(***************************************************************************)
C22_CursorMonotone ==
    [][~(msg'.type = "translateResult" /\ msg'.err = "")
       => shownEntries' >= shownEntries]_vars

\* /more moved the cursor from the first page to the end of a 7-entry Translation
C22_Witness ==
    /\ msg.type = "enter" /\ msg.value = "/more"
    /\ HasTranslation /\ Total = 7 /\ shownEntries = 7
    /\ Len(out) = 2 /\ out[2].style = "entries" /\ Len(out[2].items) = 2

(***************************************************************************)
(* C24: card creation for /cards with k phrases is sequential and stops at *)
(* the first failure without rollback.  The requests sent to the card      *)
(* service are create requests only, the forward card and then the reverse *)
(* card of each phrase in argument order; when the j-th request fails it   *)
(* is the last one sent, nothing is deleted and the count is j-1; when all *)
(* succeed 2k requests were sent and the count is 2k.                      *)
(***************************************************************************)
\* the step handles the completion of card creation for the phrases of /cards
CardsOfPhrasesDone ==
    /\ Len(inflight) = 1 /\ inflight[1].kind = "createPhraseCards"
    /\ msg'.type = "addCardResult"

\* the c-th request of a batch for these phrases is well formed
IsExpectedCall(call, phrases, c) ==
    LET p == phrases[(c + 1) \div 2]
    IN  /\ call.op = "create"
        /\ call.card.TemplateID = (IF c % 2 = 1 THEN "sxPZBYo9" ELSE "kuIZ8krm")
        /\ call.card.TargetLang = p.Source
        /\ call.card.SourceLang = p.Target

C24_SequentialNoRollback ==
    [][CardsOfPhrasesDone
       => LET phrases == inflight[1].arg
              calls   == msg'.calls
          IN  /\ Len(calls) <= 2 * Len(phrases)
              /\ \A c \in 1..Len(calls) : IsExpectedCall(calls[c], phrases, c)
              /\ msg'.err # "" => Len(calls) >= 1 /\ msg'.count = Len(calls) - 1
              /\ msg'.err = "" => Len(calls) = 2 * Len(phrases)
                                  /\ msg'.count = 2 * Len(phrases)]_vars

\* of the four requests for two phrases the third failed: two cards stay created
C24_Witness ==
    /\ msg.type = "addCardResult" /\ msg.err # "" /\ msg.count = 2
    /\ Len(msg.calls) = 3
    /\ msg.calls[3].card.TemplateID = "sxPZBYo9"
    /\ msg.calls[2].card.TargetLang # msg.calls[3].card.TargetLang

(***************************************************************************)
(* C25: busy is cleared only by a completion event.  From a busy session   *)
(* no step other than the handling of a completion message makes busy      *)
(* false: enter, any other key, a spinner tick and a resize leave the      *)
(* session busy with its call outstanding, and a successful editor         *)
(* completion keeps it busy for card creation.  So a session whose         *)
(* completion never arrives stays busy for ever.                           *)
(***************************************************************************)
C25_BusyClearedByCompletionOnly ==
    [][/\ (busy /\ ~busy') => msg'.type \in CompletionTypes
       /\ (busy /\ msg'.type \in {"enter", "key", "tick", "resize"})
          => /\ busy' /\ busyMsg' = busyMsg /\ ~focus'
             /\ inflight' = inflight /\ out' = <<>>
       /\ (busy /\ msg'.type = "editorFinished" /\ msg'.err = "")
          => busy' /\ busyMsg' = "Creating cards"]_vars

\* enter was pressed on "/more" while a lookup was outstanding: nothing happened
C25_Witness ==
    /\ msg.type = "enter" /\ msg.value = "/more"
    /\ busy /\ busyMsg = "Looking up" /\ out = <<>>
    /\ Len(inflight) = 1 /\ inflight[1].kind = "translate"

(***************************************************************************)
(* C26 (as stated): the Context of an entry is the first parenthesized     *)
(* text of the second cell of the first row of its group: when the cell    *)
(* contains "(x)" the Context is "x", and it is empty only when the cell   *)
(* holds no parenthesized text.                                            *)
(***************************************************************************)
\* the text between the first "(" and the first ")" after it, <<>> if there is none
FirstParenthesized(text) ==
    LET open  == Index(text, "(")
        close == IF open = 0 THEN 0 ELSE IndexFrom(text, ")", open + 1)
    IN  IF close = 0 THEN <<>> ELSE <<SubSeq(text, open + 1, close - 1)>>

C26_ContextIsParenthesized ==
    Parsed
    => \A t \in 1..Len(WrdTables(page)) :
          LET entries == result[1].scans[t].entries
              groups  == result[1].scans[t].groups
          IN  \A g \in 1..Len(entries) :
                 LET paren == FirstParenthesized(CellText(groups[g][1].Td2))
                 IN  /\ paren # <<>> => entries[g].Context = paren[1]
                     /\ entries[g].Context = "" => paren = <<>>

(***************************************************************************)
(* C27: pagination shows every entry at most once per Translation.  The    *)
(* ranges rendered by the successful lookup and by the /more and /all that *)
(* follow it are contiguous and pairwise disjoint and start at entry 1, so *)
(* the entries rendered so far are exactly 1..shownEntries, each once and  *)
(* in order; once shownEntries equals the total every entry of the         *)
(* Translation has been rendered exactly once.                             *)
(***************************************************************************)
C27_EachEntryOnce ==
    /\ rendered = [i \in 1..shownEntries |-> [n |-> i, entry |-> CurEntries[i]]]
    /\ \A i, j \in 1..Len(rendered) : rendered[i].n = rendered[j].n => i = j
    /\ (HasTranslation /\ shownEntries = Total)
       => \A e \in 1..Total :
             Cardinality({i \in 1..Len(rendered) : rendered[i].n = e}) = 1

\* eleven entries were shown in three pages: the lookup, /more and then /all
C27_Witness ==
    /\ HasTranslation /\ Total = 11 /\ shownEntries = 11
    /\ msg.type = "enter" /\ msg.value = "/all"
    /\ Len(out) = 2 /\ out[2].style = "entries"
    /\ Len(out[2].items) = 1 /\ out[2].items[1].n = 11
    /\ Len(rendered) = 11

(***************************************************************************)
(* C28: a successful lookup of a new word replaces the Translation and the *)
(* word but leaves lastPhrases unchanged, so the phrases generated for an  *)
(* entry of the previous word stay in use: /cards n after the new lookup   *)
(* still dispatches card creation for the n-th phrase of that batch.       *)
(***************************************************************************)
C28_LookupKeepsPhrases ==
    [][/\ (msg'.type = "translateResult" /\ msg'.err = "")
          => /\ lastPhrases' = lastPhrases
             /\ lastWord' = msg'.word /\ lastTranslation' = msg'.translation
       /\ \A n \in 1..Len(lastPhrases) :
             (~busy /\ msg'.type = "enter" /\ msg'.value = "/cards " \o Itoa(n))
             => /\ inflight' = <<Call("createPhraseCards", <<lastPhrases[n]>>)>>
                /\ busy' /\ lastPhrases' = lastPhrases]_vars

\* the lookup of "sol" completed in a session that held two phrases, which were
\* generated for an entry of an earlier Translation
C28_Witness ==
    /\ msg.type = "translateResult" /\ msg.err = "" /\ msg.word = "sol"
    /\ lastWord = "sol" /\ Len(lastPhrases) = 2 /\ ~busy

====
